---- MODULE Spec2Model ----
(***************************************************************************)
(* A model of backend/app.py of the Sudoku generator service: the request  *)
(* pipeline (check_api_key, routing, get_sudoku, home), the randomized      *)
(* backtracking fill (solve_board, is_valid, generate_full_board) and the   *)
(* carve-out (generate_puzzle).                                             *)
(*                                                                         *)
(* The grid is the program's 9x9 grid.  solve_board is modelled frame by    *)
(* frame: one step per loop iteration, call and return.  The global random  *)
(* generator is a state machine (rng): every random.sample call reads it    *)
(* and advances it, so a run is decided by the seed the process starts      *)
(* with, which Init draws from 0..MaxSeed.                                  *)
(***************************************************************************)
EXTENDS Integers, Sequences, FiniteSets, TLC

VARIABLES
    EXPECTED_API_KEY, \* the configured secret (app.py:14)
    rng,              \* state of the global generator of module random
    phase,            \* "idle" | "before_request" | "dispatch" | "solving"
    req,              \* the request being served (NoReq before the first)
    called,           \* the functions that ran for req
    board,            \* the grid solve_board mutates in place
    stack,            \* the active solve_board frames, innermost last
    ret,              \* the value the last solve_board return handed back
    resp,             \* the response to req (NoResp while it is served)
    served,           \* requests received so far
    edits             \* cells overwritten by hand (ValidSpec only)

vars == <<EXPECTED_API_KEY, rng, phase, req, called, board, stack, ret, resp,
          served, edits>>

----------------------------------------------------------------------------
(* Bounds of the model *)

\* seeds the generator may start with: 0..MaxSeed
MaxSeed == 2

\* requests one run of the service receives
MaxRequests == 1

\* cells overwritten by hand in a grid given to is_valid (ValidSpec)
MaxEdits == 1

----------------------------------------------------------------------------
(* Constants of the program *)

BOARD_SIZE == 9

BOX_SIZE == 3

DEFAULT_API_KEY == "SET_YOUR_API_KEY_IN_ENV"

Cells == 0 .. (BOARD_SIZE - 1)

\* Strings whose characters the program looks at are sequences of characters.
S_easy == <<"e", "a", "s", "y">>

S_medium == <<"m", "e", "d", "i", "u", "m">>

S_hard == <<"h", "a", "r", "d">>

S_HARD == <<"H", "A", "R", "D">>

S_bogus == <<"b", "o", "g", "u", "s">>

S_EASYX == <<"E", "A", "S", "Y", "x">>

S_empty == << >>

\* str.lower on one character
LowerChar(c) ==
    CASE c = "A" -> "a" [] c = "B" -> "b" [] c = "D" -> "d" [] c = "E" -> "e"
      [] c = "G" -> "g" [] c = "H" -> "h" [] c = "I" -> "i" [] c = "M" -> "m"
      [] c = "O" -> "o" [] c = "R" -> "r" [] c = "S" -> "s" [] c = "U" -> "u"
      [] c = "X" -> "x" [] c = "Y" -> "y" [] OTHER -> c

\* str.lower
Lower(s) == [i \in DOMAIN s |-> LowerChar(s[i])]

----------------------------------------------------------------------------
(* The random generator *)

\* one step of the generator
NextRng(s) == (s * 25173 + 13849) % 65536

\* the index the generator yields below n, from its state after the step
RandBelow(s, n) == (s \div 8) % n

RECURSIVE SampleLoop(_, _, _, _, _)
\* the selection loop of random.sample: pick pool[j], move the last live
\* element into the hole
SampleLoop(pool, live, k, s, result) ==
    IF k = 0 THEN <<result, s>>
    ELSE LET s1 == NextRng(s)
             j == RandBelow(s1, live) + 1
         IN SampleLoop([pool EXCEPT ![j] = pool[live]], live - 1, k - 1, s1,
                       Append(result, pool[j]))

RECURSIVE ChoicesLoop(_, _, _, _)
\* k draws with replacement (random.choices)
ChoicesLoop(pool, k, s, result) ==
    IF k = 0 THEN <<result, s>>
    ELSE LET s1 == NextRng(s)
             j == RandBelow(s1, Len(pool)) + 1
         IN ChoicesLoop(pool, k - 1, s1, Append(result, pool[j]))

\* sampling with replacement: indices may repeat
SampleWithReplacement(pool, k, s) == ChoicesLoop(pool, k, s, << >>)

\* random.sample(pool, k) in generator state s: <<the sample, the new state>>
Sample(pool, k, s) == SampleLoop(pool, Len(pool), k, s, << >>)

\* range(1, 10)
Range1To9 == [i \in 1 .. 9 |-> i]

\* range(81)
Range81 == [i \in 1 .. 81 |-> i - 1]

----------------------------------------------------------------------------
(* Sudoku logic *)

EmptyBoard == [r \in Cells |-> [c \in Cells |-> 0]]

\* is_valid without the box loop
is_valid_no_box(b, row, col, num) ==
    \A i \in 0 .. (BOARD_SIZE - 1) : ~(b[row][i] = num \/ b[i][col] = num)

\* is_valid with the box anchored by BOARD_SIZE instead of BOX_SIZE
is_valid_wrong_box(b, row, col, num) ==
    /\ \A i \in 0 .. (BOARD_SIZE - 1) : ~(b[row][i] = num \/ b[i][col] = num)
    /\ LET start_row == row - (row % BOARD_SIZE)
           start_col == col - (col % BOARD_SIZE)
       IN \A i \in 0 .. (BOX_SIZE - 1) : \A j \in 0 .. (BOX_SIZE - 1) :
              b[start_row + i][start_col + j] # num

\* is_valid that accepts nothing
is_valid_never(b, row, col, num) == FALSE

is_valid(b, row, col, num) ==
    /\ \A i \in 0 .. (BOARD_SIZE - 1) : ~(b[row][i] = num \/ b[i][col] = num)
    /\ LET start_row == row - (row % BOX_SIZE)
           start_col == col - (col % BOX_SIZE)
       IN \A i \in 0 .. (BOX_SIZE - 1) : \A j \in 0 .. (BOX_SIZE - 1) :
              b[start_row + i][start_col + j] # num

\* the scan without its test for an empty cell: every cell qualifies
EmptyIndicesAll(b) == 0 .. (BOARD_SIZE * BOARD_SIZE - 1)

\* the cells of b that hold 0, as row-major indices
EmptyIndices(b) ==
    {k \in 0 .. (BOARD_SIZE * BOARD_SIZE - 1) :
        b[k \div BOARD_SIZE][k % BOARD_SIZE] = 0}

Min(S) == CHOOSE x \in S : \A y \in S : x <= y

\* the first cell the two scanning loops of solve_board find empty
FirstEmpty(b) == Min(EmptyIndices(b))

\* a frame that has just been called and has not scanned yet
EnterFrame == [pc |-> "enter", row |-> 0, col |-> 0, order |-> << >>, idx |-> 0]

Top == stack[Len(stack)]

Pop == SubSeq(stack, 1, Len(stack) - 1)

ReplaceTop(f) == [stack EXCEPT ![Len(stack)] = f]

\* the digits 1..9 in the shuffled order solve_board tries them in
ShuffledDigits(s) == Sample(Range1To9, 9, s)

\* the cell indices drawn with repeats allowed
SampleCellsWithReplacement(k, s) == SampleWithReplacement(Range81, k, s)

\* the k distinct cell indices generate_puzzle removes
SampleCells(k, s) == Sample(Range81, k, s)

\* the loop of generate_puzzle that zeroes puzzle_board[divmod(index, 9)]
Carve(b, cells) ==
    [r \in Cells |-> [c \in Cells |->
        IF \E i \in DOMAIN cells :
              cells[i] \div BOARD_SIZE = r /\ cells[i] % BOARD_SIZE = c
        THEN 0 ELSE b[r][c]]]

\* [cell for row in b for cell in row]
Flatten(b) ==
    [i \in 1 .. (BOARD_SIZE * BOARD_SIZE) |->
        b[(i - 1) \div BOARD_SIZE][(i - 1) % BOARD_SIZE]]

\* a flattening that walks the columns first
FlattenColumnMajor(b) ==
    [i \in 1 .. (BOARD_SIZE * BOARD_SIZE) |->
        b[(i - 1) % BOARD_SIZE][(i - 1) \div BOARD_SIZE]]

holes_map == (S_easy :> 35) @@ (S_medium :> 45) @@ (S_hard :> 55)

\* holes_map.get(difficulty.lower(), 45)
num_holes(difficulty) ==
    IF Lower(difficulty) \in DOMAIN holes_map
    THEN holes_map[Lower(difficulty)] ELSE 45

\* generate_puzzle with the puzzle flattened column by column
generate_puzzle_colmajor(full_board, difficulty, s) ==
    LET smp == SampleCells(num_holes(difficulty), s)
        puzzle_board == Carve(full_board, smp[1])
    IN [puzzle |-> FlattenColumnMajor(puzzle_board),
        solution |-> Flatten(full_board), rng |-> smp[2]]

\* generate_puzzle after generate_full_board has returned full_board
generate_puzzle(full_board, difficulty, s) ==
    LET smp == SampleCells(num_holes(difficulty), s)
        puzzle_board == Carve(full_board, smp[1])
    IN [puzzle |-> Flatten(puzzle_board),
        solution |-> Flatten(full_board), rng |-> smp[2]]

----------------------------------------------------------------------------
(* Requests and responses *)

Methods == {"GET", "OPTIONS", "POST"}

Paths == {"/", "/generate-sudoku", "/favicon.ico"}

Keys == {"", "wrong-key", DEFAULT_API_KEY}

Labels == {S_easy, S_HARD, S_bogus, S_EASYX, S_empty}

Requests ==
    [method : Methods, path : Paths, has_key : BOOLEAN, key : Keys,
     has_difficulty : BOOLEAN, difficulty : Labels]

\* a header or query parameter that is absent carries no value
WellFormed(r) ==
    /\ (~r.has_key => r.key = "")
    /\ (~r.has_difficulty => r.difficulty = S_empty)
    /\ (r.path # "/generate-sudoku" => ~r.has_difficulty)

NoReq ==
    [method |-> "", path |-> "", has_key |-> FALSE, key |-> "",
     has_difficulty |-> FALSE, difficulty |-> S_empty]

Response(status, kind, text, difficulty, puzzle, solution) ==
    [status |-> status, kind |-> kind, text |-> text,
     difficulty |-> difficulty, puzzle |-> puzzle, solution |-> solution]

\* None: no response yet
NoResp == Response(0, "none", "", << >>, << >>, << >>)

ErrorResponse(status, msg) == Response(status, "error", msg, << >>, << >>, << >>)

MSG_UNAUTHORIZED == "Unauthorized Access"

MSG_INVALID == "Invalid difficulty. Choose 'easy', 'medium', or 'hard'."

MSG_FAILED == "Failed to generate Sudoku puzzle."

MSG_HOME == "Sudoku Generator API is running and protected!"

\* check_api_key that lets a request without the header through
check_api_key_no_header(r, expected) ==
    IF r.method = "OPTIONS" THEN Response(200, "text", "", << >>, << >>, << >>)
    ELSE IF r.has_key /\ r.key # expected
         THEN ErrorResponse(401, MSG_UNAUTHORIZED)
         ELSE NoResp

\* the before_request hook: a response, or NoResp to go on to the route
check_api_key(r, expected) ==
    IF r.method = "OPTIONS" THEN Response(200, "text", "", << >>, << >>, << >>)
    ELSE IF (~r.has_key \/ r.key = "") \/ r.key # expected
         THEN ErrorResponse(401, MSG_UNAUTHORIZED)
         ELSE NoResp

\* request.args.get('difficulty', 'medium')
ArgsDifficulty(r) == IF r.has_difficulty THEN r.difficulty ELSE S_medium

\* no validation of the label
difficulty_ok_any(difficulty) == TRUE

\* difficulty.lower() in ['easy', 'medium', 'hard']
difficulty_ok(difficulty) == Lower(difficulty) \in {S_easy, S_medium, S_hard}

\* a health check that answers with an error status
home_unavailable == Response(503, "text", MSG_HOME, << >>, << >>, << >>)

home == Response(200, "text", MSG_HOME, << >>, << >>, << >>)

\* the routes app.route registers, with the methods they accept
RouteMethods == ("/generate-sudoku" :> {"GET"}) @@ ("/" :> {"GET"})


\* the try/except of get_sudoku around generate_puzzle: the success
\* response, or the generic 500 when generate_puzzle raised
get_sudoku_result(out, difficulty, raised) ==
    IF raised THEN ErrorResponse(500, MSG_FAILED)
    ELSE Response(200, "puzzle", "", difficulty, out.puzzle, out.solution)

----------------------------------------------------------------------------
(* The service *)

Init ==
    /\ EXPECTED_API_KEY \in {DEFAULT_API_KEY, ""}
    /\ rng \in 0 .. MaxSeed
    /\ phase = "idle"
    /\ req = NoReq
    /\ called = {}
    /\ board = EmptyBoard
    /\ stack = << >>
    /\ ret = "none"
    /\ resp = NoResp
    /\ served = 0
    /\ edits = 0

\* a request arrives; the service handles one request at a time
Receive ==
    /\ phase = "idle"
    /\ served < MaxRequests
    /\ \E r \in Requests :
          /\ WellFormed(r)
          /\ req' = r
    /\ served' = served + 1
    /\ phase' = "before_request"
    /\ called' = {}
    /\ resp' = NoResp
    /\ UNCHANGED <<EXPECTED_API_KEY, rng, board, stack, ret, edits>>

\* the before_request hook runs first; a response from it ends the request
CheckApiKey ==
    /\ phase = "before_request"
    /\ called' = called \cup {"check_api_key"}
    /\ LET rv == check_api_key(req, EXPECTED_API_KEY)
       IN IF rv # NoResp
          THEN resp' = rv /\ phase' = "idle"
          ELSE resp' = resp /\ phase' = "dispatch"
    /\ UNCHANGED <<EXPECTED_API_KEY, rng, req, board, stack, ret, served, edits>>

\* no route for the path (404) or the route does not take the method (405)
RouteError ==
    /\ phase = "dispatch"
    /\ IF req.path \in DOMAIN RouteMethods
       THEN req.method \notin RouteMethods[req.path]
       ELSE TRUE
    /\ resp' = IF req.path \notin DOMAIN RouteMethods
               THEN ErrorResponse(404, "Not Found")
               ELSE ErrorResponse(405, "Method Not Allowed")
    /\ phase' = "idle"
    /\ UNCHANGED <<EXPECTED_API_KEY, rng, req, called, board, stack, ret,
                   served, edits>>

\* GET /
Home ==
    /\ phase = "dispatch"
    /\ req.path = "/"
    /\ req.method \in RouteMethods["/"]
    /\ called' = called \cup {"home"}
    /\ resp' = home
    /\ phase' = "idle"
    /\ UNCHANGED <<EXPECTED_API_KEY, rng, req, board, stack, ret, served, edits>>

\* GET /generate-sudoku with a label get_sudoku rejects
GetSudokuReject ==
    /\ phase = "dispatch"
    /\ req.path = "/generate-sudoku"
    /\ req.method \in RouteMethods["/generate-sudoku"]
    /\ ~difficulty_ok(ArgsDifficulty(req))
    /\ called' = called \cup {"get_sudoku"}
    /\ resp' = ErrorResponse(400, MSG_INVALID)
    /\ phase' = "idle"
    /\ UNCHANGED <<EXPECTED_API_KEY, rng, req, board, stack, ret, served, edits>>

\* GET /generate-sudoku with a label get_sudoku accepts: generate_puzzle
\* calls generate_full_board, which calls solve_board on a fresh zero grid
GetSudokuGenerate ==
    /\ phase = "dispatch"
    /\ req.path = "/generate-sudoku"
    /\ req.method \in RouteMethods["/generate-sudoku"]
    /\ difficulty_ok(ArgsDifficulty(req))
    /\ called' = called \cup {"get_sudoku", "generate_puzzle"}
    /\ board' = EmptyBoard
    /\ stack' = <<EnterFrame>>
    /\ ret' = "none"
    /\ phase' = "solving"
    /\ UNCHANGED <<EXPECTED_API_KEY, rng, req, resp, served, edits>>

\* a solve_board frame scans for the first empty cell: none left is the
\* base case (return True), otherwise it draws the order of its digits
SolveEnter ==
    /\ phase = "solving"
    /\ stack # << >>
    /\ Top.pc = "enter"
    /\ IF EmptyIndices(board) = {}
       THEN /\ stack' = Pop
            /\ ret' = "True"
            /\ rng' = rng
       ELSE LET k == FirstEmpty(board)
                smp == ShuffledDigits(rng)
            IN /\ stack' = ReplaceTop([pc |-> "loop",
                                       row |-> k \div BOARD_SIZE,
                                       col |-> k % BOARD_SIZE,
                                       order |-> smp[1], idx |-> 1])
               /\ rng' = smp[2]
               /\ ret' = ret
    /\ UNCHANGED <<EXPECTED_API_KEY, phase, req, called, board, resp, served,
                   edits>>

\* one iteration of the for-num loop: place a valid digit and recurse, skip
\* an invalid one, or return False when the digits are exhausted
SolveLoop ==
    /\ phase = "solving"
    /\ stack # << >>
    /\ Top.pc = "loop"
    /\ LET f == Top
       IN IF f.idx > Len(f.order)
          THEN /\ stack' = Pop
               /\ ret' = "False"
               /\ board' = board
          ELSE IF is_valid(board, f.row, f.col, f.order[f.idx])
          THEN /\ board' = [board EXCEPT ![f.row][f.col] = f.order[f.idx]]
               /\ stack' = Append(ReplaceTop([f EXCEPT !.pc = "wait"]),
                                  EnterFrame)
               /\ ret' = "none"
          ELSE /\ stack' = ReplaceTop([f EXCEPT !.idx = f.idx + 1])
               /\ board' = board
               /\ ret' = ret
    /\ UNCHANGED <<EXPECTED_API_KEY, rng, phase, req, called, resp, served,
                   edits>>

\* the recursive call returned: True is passed up at once, False resets the
\* cell and goes on with the next digit
SolveResume ==
    /\ phase = "solving"
    /\ stack # << >>
    /\ Top.pc = "wait"
    /\ ret # "none"
    /\ LET f == Top
       IN IF ret = "True"
          THEN /\ stack' = Pop
               /\ ret' = "True"
               /\ board' = board
          ELSE /\ board' = [board EXCEPT ![f.row][f.col] = 0]
               /\ stack' = ReplaceTop([f EXCEPT !.pc = "loop", !.idx = f.idx + 1])
               /\ ret' = "none"
    /\ UNCHANGED <<EXPECTED_API_KEY, rng, phase, req, called, resp, served,
                   edits>>

\* the outermost solve_board has returned: generate_full_board drops its
\* result and returns the board, generate_puzzle carves it, get_sudoku answers
GenerateFinish ==
    /\ phase = "solving"
    /\ stack = << >>
    /\ ret # "none"
    /\ LET difficulty == ArgsDifficulty(req)
           out == generate_puzzle(board, difficulty, rng)
       IN /\ resp' = get_sudoku_result(out, difficulty, FALSE)
          /\ rng' = out.rng
    /\ phase' = "idle"
    /\ UNCHANGED <<EXPECTED_API_KEY, req, called, board, stack, ret, served,
                   edits>>

SolveStep == SolveEnter \/ SolveLoop \/ SolveResume

Next ==
    \/ Receive
    \/ CheckApiKey
    \/ RouteError
    \/ Home
    \/ GetSudokuReject
    \/ GetSudokuGenerate
    \/ SolveEnter
    \/ SolveLoop
    \/ SolveResume
    \/ GenerateFinish

Spec == Init /\ [][Next]_vars

\* the request thread runs on: a step of the solver that can be taken is taken
LiveSpec == Init /\ [][Next]_vars /\ WF_vars(SolveStep)


----------------------------------------------------------------------------
(* is_valid on grids filled in by hand *)

\* a solved grid (the shifted-rows pattern) with every third cell blanked
PatternGrid ==
    [r \in Cells |-> [c \in Cells |->
        IF (r + c) % 3 = 0 THEN 0
        ELSE ((r * BOX_SIZE + (r \div BOX_SIZE) + c) % BOARD_SIZE) + 1]]

\* a grid that is no partial solution: zeros, repeated digits in rows,
\* columns and boxes
ScrambledGrid == [r \in Cells |-> [c \in Cells |-> (r * c + r) % 10]]

HandGrids == {EmptyBoard, PatternGrid, ScrambledGrid}

ValidInit ==
    /\ EXPECTED_API_KEY = DEFAULT_API_KEY
    /\ rng = 0
    /\ phase = "idle"
    /\ req = NoReq
    /\ called = {}
    /\ board \in HandGrids
    /\ stack = << >>
    /\ ret = "none"
    /\ resp = NoResp
    /\ served = 0
    /\ edits = 0

\* overwrite a cell of the main diagonal (one cell of every row and of every
\* column) with any value 0..9: blanks get filled, digits get erased or
\* replaced, duplicates included
Place ==
    /\ edits < MaxEdits
    /\ \E d \in Cells, v \in 0 .. 9 :
          board' = [board EXCEPT ![d][d] = v]
    /\ edits' = edits + 1
    /\ UNCHANGED <<EXPECTED_API_KEY, rng, phase, req, called, stack, ret, resp,
                   served>>

ValidNext == Place

ValidSpec == ValidInit /\ [][ValidNext]_vars


----------------------------------------------------------------------------
(* Properties *)

\* a flattened grid where every row, column and box is a permutation of 1..9
IsSolved(flat) ==
    /\ Len(flat) = 81
    /\ \A i \in 1 .. 81 : flat[i] \in 1 .. 9
    /\ \A r \in 0 .. 8 : {flat[r * 9 + c + 1] : c \in 0 .. 8} = 1 .. 9
    /\ \A c \in 0 .. 8 : {flat[r * 9 + c + 1] : r \in 0 .. 8} = 1 .. 9
    /\ \A br \in 0 .. 2 : \A bc \in 0 .. 2 :
          {flat[(br * 3 + i) * 9 + (bc * 3 + j) + 1] : i \in 0 .. 2, j \in 0 .. 2}
              = 1 .. 9

ZeroCount(flat) == Cardinality({i \in DOMAIN flat : flat[i] = 0})

\* the request being served carries the configured secret
Authorized == req.has_key /\ req.key # "" /\ req.key = EXPECTED_API_KEY

\* req has been answered
Answered == req # NoReq /\ phase = "idle"

\* the outermost solve_board call has returned
RootReturned == phase = "solving" /\ stack = << >>

\* C1: the board generate_full_board hands back, and the Solution of every
\* success response, has no zero cell and every row, column and 3x3 box of it
\* holds each digit 1..9 exactly once.
C1_SolutionIsSolved ==
    /\ RootReturned => IsSolved(Flatten(board))
    /\ resp.kind = "puzzle" => IsSolved(resp.solution)

C1_Witness ==
    /\ resp.kind = "puzzle"
    /\ Len(resp.solution) = 81
    /\ \A i \in 1 .. 81 : resp.solution[i] # 0

\* C2: the number of zero cells of the returned Puzzle is exactly the hole
\* count of the requested difficulty: easy 35, medium 45, hard 55.
C2_HoleCountExact ==
    resp.kind = "puzzle" =>
        LET label == Lower(resp.difficulty)
        IN /\ label = S_easy => ZeroCount(resp.puzzle) = 35
           /\ label = S_medium => ZeroCount(resp.puzzle) = 45
           /\ label = S_hard => ZeroCount(resp.puzzle) = 55
           /\ label \in {S_easy, S_medium, S_hard}

C2_Witness ==
    /\ resp.kind = "puzzle"
    /\ Lower(resp.difficulty) = S_hard
    /\ ZeroCount(resp.puzzle) = 55

\* C3: every cell of the returned Puzzle is 0 or equal to the cell of the
\* Solution at the same index.
C3_PuzzleByDeletion ==
    resp.kind = "puzzle" =>
        /\ Len(resp.puzzle) = 81
        /\ \A i \in 1 .. 81 :
               resp.puzzle[i] = 0 \/ resp.puzzle[i] = resp.solution[i]

C3_Witness ==
    /\ resp.kind = "puzzle"
    /\ \E i \in 1 .. 81 : resp.puzzle[i] = 0 /\ resp.solution[i] # 0
    /\ \E i \in 1 .. 81 : resp.puzzle[i] # 0

\* num occurs in row `row`, in column `col` or in the box whose top-left cell
\* is (row - row % 3, col - col % 3)
Occurs(b, row, col, num) ==
    \/ \E c \in 0 .. 8 : b[row][c] = num
    \/ \E r \in 0 .. 8 : b[r][col] = num
    \/ \E r \in (row - (row % 3)) .. (row - (row % 3) + 2) :
       \E c \in (col - (col % 3)) .. (col - (col % 3) + 2) : b[r][c] = num

\* C4: is_valid(grid, row, col, num) is false exactly when num occurs in the
\* row, the column or the 3x3 box of (row, col), for every row, col and num.
C4_IsValidIffAbsent ==
    \A row \in 0 .. 8 : \A col \in 0 .. 8 : \A num \in 1 .. 9 :
        is_valid(board, row, col, num) = ~Occurs(board, row, col, num)

\* a hand-written cell makes is_valid reject a digit that is neither in the
\* row nor in the column of the asked cell, only in its box
C4_Witness ==
    /\ edits > 0
    /\ \E row \in 0 .. 8 : \E col \in 0 .. 8 : \E num \in 1 .. 9 :
          /\ ~is_valid(board, row, col, num)
          /\ \A i \in 0 .. 8 : board[row][i] # num /\ board[i][col] # num

\* the label of req is none of easy, medium, hard, whatever its case
InvalidLabel == Lower(ArgsDifficulty(req)) \notin {S_easy, S_medium, S_hard}

\* C5: a GET /generate-sudoku that passed the key check with an invalid label
\* is answered 400 with the invalid-difficulty error and generate_puzzle is
\* not invoked for it; generate_puzzle only ever runs with a label of its map.
C5_InvalidDifficultyRejected ==
    /\ (/\ req.method = "GET" /\ req.path = "/generate-sudoku"
        /\ Authorized /\ InvalidLabel)
         => /\ "generate_puzzle" \notin called
            /\ phase # "solving"
            /\ Answered => resp = ErrorResponse(400, MSG_INVALID)
    /\ "generate_puzzle" \in called =>
           Lower(ArgsDifficulty(req)) \in DOMAIN holes_map

C5_Witness ==
    /\ Answered
    /\ req.method = "GET" /\ req.path = "/generate-sudoku"
    /\ Authorized /\ InvalidLabel
    /\ "get_sudoku" \in called
    /\ resp.status = 400

\* C6: a non-OPTIONS request whose X-Api-Key is missing, empty or not the
\* configured secret is answered 401 "Unauthorized Access", and nothing but
\* the key check runs for it.
C6_UnauthorizedRejected ==
    (req # NoReq /\ req.method # "OPTIONS" /\ ~Authorized) =>
        /\ called \subseteq {"check_api_key"}
        /\ phase \in {"before_request", "idle"}
        /\ Answered => resp = ErrorResponse(401, MSG_UNAUTHORIZED)

C6_Witness ==
    /\ Answered
    /\ req.method = "GET" /\ req.path = "/generate-sudoku"
    /\ req.has_key /\ req.key # "" /\ req.key # EXPECTED_API_KEY
    /\ resp.status = 401

\* C7 as stated: every GET / is answered 200 with the availability string.
C7_HealthAlways200 ==
    (Answered /\ req.method = "GET" /\ req.path = "/") =>
        (resp.status = 200 /\ resp.text = MSG_HOME)

\* C7 amended: every GET / that carries the configured secret in X-Api-Key
\* is answered 200 with the availability string.
C7_HealthOkWithKey ==
    (Answered /\ req.method = "GET" /\ req.path = "/" /\ Authorized) =>
        (resp.status = 200 /\ resp.kind = "text" /\ resp.text = MSG_HOME)

C7_Witness ==
    /\ Answered /\ req.method = "GET" /\ req.path = "/" /\ Authorized
    /\ "home" \in called
    /\ resp.status = 200

\* C9: started on the all-zero grid, the outermost solve_board call always
\* returns in the end, and what it returns is True.
C9_SolveReturnsTrue ==
    /\ [](RootReturned => ret = "True")
    /\ (phase = "solving" /\ stack # << >>) ~> (RootReturned /\ ret = "True")

C9_Witness ==
    /\ RootReturned
    /\ ret = "True"
    /\ EmptyIndices(board) = {}

\* C10 as stated: never more than 81 solve_board frames are active.
C10_FramesAtMost81 == Len(stack) <= 81

\* C10 amended: never more than 82 solve_board frames are active: one per
\* cell, and the call that finds no empty cell left.
C10_FramesAtMost82 == Len(stack) <= 82

C10_Witness ==
    /\ phase = "solving"
    /\ Len(stack) = 82
    /\ Top.pc = "enter"

====
